---- MODULE Spec2Model ----
(***************************************************************************)
(* Model of sports_guesser.py: the keyword classifier categorize_text, the *)
(* upload validation allowed_file, the two text extractors and the request *)
(* handler upload_file.                                                    *)
(*                                                                         *)
(* A Python str is modelled as a sequence of one-character strings, so     *)
(* that lower(), count(), rsplit() and endswith() are computed character   *)
(* by character as the interpreter computes them.                          *)
(***************************************************************************)
EXTENDS Integers, Sequences, FiniteSets, TLC

VARIABLES
    stage,      \* position of the pure-function drivers: "input" or "done"
    text,       \* categorize_text: its argument
    scores,     \* categorize_text: the scores dict after the counting loops
    label,      \* categorize_text: its return value
    fname,      \* allowed_file: its argument
    accepted,   \* allowed_file: its return value
    document,   \* the extractors: the content of the file at filepath
    extracted,  \* the extractors: what the call gave (a text, or an exception)
    request,    \* upload_file: per request, what the client sent
    pc,         \* upload_file: per request, the statement it has reached
    filepath,   \* upload_file: per request, the local filepath
    extractor,  \* upload_file: per request, the extractor it called
    file_text,  \* upload_file: per request, the local file_text
    category,   \* upload_file: per request, the local category
    uploads     \* the files in UPLOAD_FOLDER: path -> content

classifyVars == <<text, scores, label>>

validateVars == <<fname, accepted>>

extractVars == <<document, extracted>>

handlerVars == <<request, pc, filepath, extractor, file_text, category, uploads>>

pureVars == <<stage, text, scores, label, fname, accepted, document, extracted>>

vars == <<stage, text, scores, label, fname, accepted, document, extracted,
          request, pc, filepath, extractor, file_text, category, uploads>>

----------------------------------------------------------------------------
(* Characters, str.lower() and its companions                               *)

UpperLetters == <<"A","B","C","D","E","F","G","H","I","J","K","L","M",
                  "N","O","P","Q","R","S","T","U","V","W","X","Y","Z">>

LowerLetters == <<"a","b","c","d","e","f","g","h","i","j","k","l","m",
                  "n","o","p","q","r","s","t","u","v","w","x","y","z">>

Letters == 1..Len(UpperLetters)

\* The characters the model's strings are made of.
Alphabet == {UpperLetters[i] : i \in Letters} \cup {LowerLetters[i] : i \in Letters}
            \cup {" ", ".", "/", "_", "-", "!", "\n"}

lowerChar == [c \in Alphabet |->
                IF \E i \in Letters : UpperLetters[i] = c
                THEN LowerLetters[CHOOSE i \in Letters : UpperLetters[i] = c]
                ELSE c]

upperChar == [c \in Alphabet |->
                IF \E i \in Letters : LowerLetters[i] = c
                THEN UpperLetters[CHOOSE i \in Letters : LowerLetters[i] = c]
                ELSE c]

\* str.lower()
lower(s) == [i \in 1..Len(s) |-> lowerChar[s[i]]]

\* str.upper()
upper(s) == [i \in 1..Len(s) |-> upperChar[s[i]]]

\* str.swapcase(): the case of every letter changed
swapcase(s) == [i \in 1..Len(s) |->
                  IF lowerChar[s[i]] = s[i] THEN upperChar[s[i]] ELSE lowerChar[s[i]]]

----------------------------------------------------------------------------
(* SPORT_CATEGORIES and categorize_text                                     *)

SPORT_CATEGORIES ==
  [ Football |-> <<
        <<"f","o","o","t","b","a","l","l">>,
        <<"f","i","f","a">>,
        <<"g","o","a","l">>,
        <<"k","i","c","k">>,
        <<"s","o","c","c","e","r">>,
        <<"m","e","s","s","i">>,
        <<"r","o","n","a","l","d","o">>
      >>,
    Cricket |-> <<
        <<"c","r","i","c","k","e","t">>,
        <<"b","a","t">>,
        <<"b","a","l","l">>,
        <<"w","i","c","k","e","t">>,
        <<"b","o","w","l","e","r">>,
        <<"b","a","t","s","m","a","n">>,
        <<"d","h","o","n","i">>,
        <<"k","o","h","l","i">>
      >>,
    Basketball |-> <<
        <<"b","a","s","k","e","t","b","a","l","l">>,
        <<"n","b","a">>,
        <<"h","o","o","p">>,
        <<"d","r","i","b","b","l","e">>,
        <<"s","l","a","m"," ","d","u","n","k">>,
        <<"l","e","b","r","o","n">>,
        <<"c","u","r","r","y">>
      >>,
    Tennis |-> <<
        <<"t","e","n","n","i","s">>,
        <<"g","r","a","n","d"," ","s","l","a","m">>,
        <<"w","i","m","b","l","e","d","o","n">>,
        <<"f","e","d","e","r","e","r">>,
        <<"n","a","d","a","l">>,
        <<"d","j","o","k","o","v","i","c">>,
        <<"s","e","r","v","e">>
      >>,
    Hockey |-> <<
        <<"h","o","c","k","e","y">>,
        <<"s","t","i","c","k">>,
        <<"p","u","c","k">>,
        <<"i","c","e">>,
        <<"n","h","l">>,
        <<"g","o","a","l","i","e">>,
        <<"r","i","n","k">>
      >> ]

\* Iteration order of the dict SPORT_CATEGORIES: its definition order.
SportOrder == <<"Football", "Cricket", "Basketball", "Tennis", "Hockey">>

Sports == {SportOrder[i] : i \in 1..Len(SportOrder)}

\* A letter, for the word-boundary variant of count below.
IsLetter(c) == \E i \in Letters : UpperLetters[i] = c \/ LowerLetters[i] = c

\* count as a whole-word matcher would compute it: an occurrence counts only
\* when no letter touches it on either side.
RECURSIVE countWordsFrom(_, _, _)
countWordsFrom(s, sub, i) ==
    IF i + Len(sub) - 1 > Len(s) THEN 0
    ELSE IF /\ SubSeq(s, i, i + Len(sub) - 1) = sub
            /\ (i = 1 \/ ~IsLetter(s[i - 1]))
            /\ (i + Len(sub) > Len(s) \/ ~IsLetter(s[i + Len(sub)]))
         THEN 1 + countWordsFrom(s, sub, i + Len(sub))
         ELSE countWordsFrom(s, sub, i + 1)

count_whole_words(s, sub) == countWordsFrom(s, sub, 1)

\* str.count(sub): occurrences found by a left-to-right scan that resumes
\* right after the end of each occurrence found.
RECURSIVE countFrom(_, _, _)
countFrom(s, sub, i) ==
    IF i + Len(sub) - 1 > Len(s) THEN 0
    ELSE IF SubSeq(s, i, i + Len(sub) - 1) = sub
         THEN 1 + countFrom(s, sub, i + Len(sub))
         ELSE countFrom(s, sub, i + 1)

count(s, sub) == countFrom(s, sub, 1)

\* text_lower without the call of lower()
text_lower_unchanged(t) == t

\* text_lower = text.lower()
text_lower_of(t) == lower(t)

\* The inner loop: scores[sport] += text_lower.count(keyword), keyword by keyword.
RECURSIVE sumCounts(_, _, _)
sumCounts(text_lower, keywords, k) ==
    IF k > Len(keywords) THEN 0
    ELSE count(text_lower, keywords[k]) + sumCounts(text_lower, keywords, k + 1)

\* scores after both loops
scoresOf(t) ==
    LET text_lower == text_lower_of(t)
    IN  [sport \in Sports |-> sumCounts(text_lower, SPORT_CATEGORIES[sport], 1)]

\* max(scores, key=scores.get): one pass in iteration order that keeps the
\* first key and replaces it only by a key with a strictly greater value.
RECURSIVE maxByKey(_, _, _)
maxByKey(sc, i, best) ==
    IF i > Len(SportOrder) THEN best
    ELSE maxByKey(sc, i + 1,
                  IF sc[SportOrder[i]] > sc[best] THEN SportOrder[i] ELSE best)

\* max() keeping the last of the keys with the greatest value
RECURSIVE maxByKeyLast(_, _, _)
maxByKeyLast(sc, i, best) ==
    IF i > Len(SportOrder) THEN best
    ELSE maxByKeyLast(sc, i + 1,
                      IF sc[SportOrder[i]] >= sc[best] THEN SportOrder[i] ELSE best)

best_sport_last(sc) == maxByKeyLast(sc, 2, SportOrder[1])

best_sport_of(sc) == maxByKey(sc, 2, SportOrder[1])

\* the return statement with >= in place of >
categorize_scores_ge(sc) ==
    LET best_sport == best_sport_of(sc)
    IN  IF sc[best_sport] >= 0 THEN best_sport ELSE "Unknown"

\* return best_sport if scores[best_sport] > 0 else "Unknown"
categorize_scores(sc) ==
    LET best_sport == best_sport_of(sc)
    IN  IF sc[best_sport] > 0 THEN best_sport ELSE "Unknown"

categorize_text(t) == categorize_scores(scoresOf(t))

----------------------------------------------------------------------------
(* Inputs of the classifier: texts put together from a few fragments        *)

MaxFrags == 3

Fragments == <<
    <<"G","o","a","l","i","e">>,
    <<"b","a","s","k","e","t","B","A","L","L">>,
    <<"I","C","E">>,
    <<"n","b","a">>,
    <<"B","a","t">>,
    <<"s","e","r","v","e">>,
    <<"S","l","a","m"," ">>,
    <<"d","u","n","k">>
>>

RECURSIVE Concat(_)
Concat(ss) == IF ss = <<>> THEN <<>> ELSE Head(ss) \o Concat(Tail(ss))

Texts == UNION {{Concat([i \in 1..n |-> Fragments[p[i]]]) :
                    p \in [1..n -> 1..Len(Fragments)]} : n \in 0..MaxFrags}

NoScores == [sport \in Sports |-> 0]

IdleClassify ==
    /\ text = <<>>
    /\ scores = NoScores
    /\ label = "None"

----------------------------------------------------------------------------
(* ALLOWED_EXTENSIONS and allowed_file                                      *)

ALLOWED_EXTENSIONS == {<<"p","d","f">>, <<"d","o","c","x">>}

\* c in s
contains(s, c) == \E i \in 1..Len(s) : s[i] = c

\* Index of the last c in s[1..i], 0 when there is none: the scan of rsplit.
RECURSIVE rfind(_, _, _)
rfind(s, c, i) ==
    IF i = 0 THEN 0
    ELSE IF s[i] = c THEN i ELSE rfind(s, c, i - 1)

\* s.rsplit(c, 1): one split at the last c, the list [s] when there is none
rsplit1(s, c) ==
    LET k == rfind(s, c, Len(s))
    IN  IF k = 0 THEN <<s>>
        ELSE <<SubSeq(s, 1, k - 1), SubSeq(s, k + 1, Len(s))>>

\* allowed_file without the call of lower()
allowed_file_case_sensitive(filename) ==
    /\ contains(filename, ".")
    /\ rsplit1(filename, ".")[2] \in ALLOWED_EXTENSIONS

\* return '.' in filename and filename.rsplit('.', 1)[1].lower() in ALLOWED_EXTENSIONS
allowed_file(filename) ==
    /\ contains(filename, ".")
    /\ lower(rsplit1(filename, ".")[2]) \in ALLOWED_EXTENSIONS

\* Inputs of allowed_file: filenames put together from a few parts
MaxNameParts == 3

NameParts == <<
    <<"r","e","p","o","r","t">>,
    <<"i","m","a","g","e">>,
    <<".">>,
    <<"P","D","F">>,
    <<"p","d","f">>,
    <<"d","o","c","x">>,
    <<"D","o","c","X">>,
    <<"p","n","g">>,
    <<"x">>
>>

Filenames == UNION {{Concat([i \in 1..n |-> NameParts[p[i]]]) :
                        p \in [1..n -> 1..Len(NameParts)]} : n \in 0..MaxNameParts}

IdleValidate ==
    /\ fname = <<>>
    /\ accepted = FALSE

----------------------------------------------------------------------------
(* extract_text_from_pdf and extract_text_from_docx                         *)
(*                                                                          *)
(* The content of a file is what the parsers make of it: a PDF is the       *)
(* sequence of its pages, each with the value its extract_text() returns    *)
(* (None or a str); a DOCX is the sequence of its paragraphs' texts; any    *)
(* other content is "garbage", on which both parsers raise.                 *)

None == [isNone |-> TRUE, value |-> <<>>]

Str(t) == [isNone |-> FALSE, value |-> t]

\* x or "": the str unless x is None or empty
or_empty(x) == IF x.isNone \/ x.value = <<>> THEN <<>> ELSE x.value

Returned(t) == [raised |-> FALSE, text |-> t]

Raised == [raised |-> TRUE, text |-> <<>>]

\* the loop of extract_text_from_pdf: text += page.extract_text() or ""
RECURSIVE pdf_loop(_, _, _)
pdf_loop(pages, i, acc) ==
    IF i > Len(pages) THEN acc
    ELSE pdf_loop(pages, i + 1, acc \o or_empty(pages[i]))

\* the loop with a newline put after every page
RECURSIVE pdf_loop_newline(_, _, _)
pdf_loop_newline(pages, i, acc) ==
    IF i > Len(pages) THEN acc
    ELSE pdf_loop_newline(pages, i + 1, acc \o or_empty(pages[i]) \o <<"\n">>)

extract_text_from_pdf_newline(content) ==
    IF content.format # "pdf" THEN Raised
    ELSE Returned(pdf_loop_newline(content.parts, 1, <<>>))

\* PyPDF2.PdfReader(f) raises on content that is no PDF
extract_text_from_pdf(content) ==
    IF content.format # "pdf" THEN Raised
    ELSE Returned(pdf_loop(content.parts, 1, <<>>))

\* sep.join(parts)
RECURSIVE join(_, _)
join(sep, parts) ==
    IF parts = <<>> THEN <<>>
    ELSE IF Len(parts) = 1 THEN parts[1]
    ELSE parts[1] \o sep \o join(sep, Tail(parts))

\* docx.Document(filepath) raises on content that is no DOCX
extract_text_from_docx(content) ==
    IF content.format # "docx" THEN Raised
    ELSE Returned(join(<<"\n">>, content.parts))

\* Inputs of the extractors
MaxParts == 3

PartTexts == {<<>>, <<"I","C","E">>, <<"g","o">>, <<"a","l","\n">>}

PageValues == {None} \cup {Str(t) : t \in PartTexts}

SeqsUpTo(S, n) == UNION {[1..k -> S] : k \in 0..n}

Documents ==
    {[format |-> "pdf", parts |-> ps] : ps \in SeqsUpTo(PageValues, MaxParts)}
    \cup {[format |-> "docx", parts |-> ps] : ps \in SeqsUpTo(PartTexts, MaxParts)}
    \cup {[format |-> "garbage", parts |-> <<>>]}

IdleExtract ==
    /\ document = [format |-> "garbage", parts |-> <<>>]
    /\ extracted = Returned(<<>>)

----------------------------------------------------------------------------
(* werkzeug's secure_filename, os.path.join and str.endswith, as            *)
(* upload_file uses them                                                    *)

IsSpace(c) == c \in {" ", "\n"}

\* the characters the pattern [^A-Za-z0-9_.-] leaves in place
IsSafeChar(c) == IsLetter(c) \/ c \in {"_", ".", "-"}

\* filename.replace(os.sep, " ")
replace_sep(s) == [i \in 1..Len(s) |-> IF s[i] = "/" THEN " " ELSE s[i]]

\* "_".join(s.split()): the words of s, runs of whitespace dropped, joined by "_"
RECURSIVE join_words(_, _, _, _)
join_words(s, i, acc, gap) ==
    IF i > Len(s) THEN acc
    ELSE IF IsSpace(s[i]) THEN join_words(s, i + 1, acc, acc # <<>>)
    ELSE join_words(s, i + 1, (IF gap THEN acc \o <<"_">> ELSE acc) \o <<s[i]>>, FALSE)

\* s.strip("._")
RECURSIVE strip_dots(_)
strip_dots(s) ==
    IF s = <<>> THEN s
    ELSE IF Head(s) \in {".", "_"} THEN strip_dots(Tail(s))
    ELSE IF s[Len(s)] \in {".", "_"} THEN strip_dots(SubSeq(s, 1, Len(s) - 1))
    ELSE s

\* secure_filename(filename) on a POSIX host, for ASCII names
secure_filename(filename) ==
    strip_dots(SelectSeq(join_words(replace_sep(filename), 1, <<>>, FALSE), IsSafeChar))

UPLOAD_FOLDER == <<"u","p","l","o","a","d","s">>

\* os.path.join(folder, name) for a name that is not absolute
path_join(folder, name) == folder \o <<"/">> \o name

\* s.endswith(suffix)
endswith(s, suffix) ==
    /\ Len(suffix) <= Len(s)
    /\ SubSeq(s, Len(s) - Len(suffix) + 1, Len(s)) = suffix

DotPdf == <<".","p","d","f">>

DotDocx == <<".","d","o","c","x">>

----------------------------------------------------------------------------
(* upload_file: the requests                                                *)

Requests == {"r1", "r2"}

\* filenames a client may send with the file part
UploadNames == {
    <<>>,
    <<"a",".","p","d","f">>,
    <<"/","a",".","p","d","f">>,
    <<"b",".","P","D","F">>,
    <<".","p","d","f">>,
    <<"a",".","d","o","c","x">>,
    <<"a",".","p","n","g">>,
    <<"a">>
}

\* contents a client may send
UploadContents == {
    [format |-> "pdf", parts |-> <<>>],
    [format |-> "pdf", parts |-> <<Str(<<"I","C","E">>)>>],
    [format |-> "pdf", parts |-> <<None, Str(<<"k","i","c","k">>)>>],
    [format |-> "docx", parts |-> <<<<"B","a","t">>, <<"x">>>>],
    [format |-> "docx", parts |-> <<<<>>>>],
    [format |-> "garbage", parts |-> <<>>]
}

NoContent == [format |-> "garbage", parts |-> <<>>]

\* what a client sends: a GET, a POST without a file part, or a POST with one
RequestInputs ==
    {[method |-> "GET", has_file |-> FALSE, filename |-> <<>>, content |-> NoContent]}
    \cup {[method |-> "POST", has_file |-> FALSE, filename |-> <<>>, content |-> NoContent]}
    \cup {[method |-> "POST", has_file |-> TRUE, filename |-> f, content |-> c] :
             f \in UploadNames, c \in UploadContents}

NoneCategory == "None"

IdlePure ==
    /\ stage = "idle"
    /\ IdleClassify
    /\ IdleValidate
    /\ IdleExtract

Init ==
    /\ request \in [Requests -> RequestInputs]
    /\ pc = [r \in Requests |-> "start"]
    /\ filepath = [r \in Requests |-> <<>>]
    /\ extractor = [r \in Requests |-> "none"]
    /\ file_text = [r \in Requests |-> <<>>]
    /\ category = [r \in Requests |-> NoneCategory]
    /\ uploads = <<>>
    /\ IdlePure

IdleHandler ==
    /\ request = [r \in Requests |->
                    [method |-> "GET", has_file |-> FALSE, filename |-> <<>>,
                     content |-> NoContent]]
    /\ pc = [r \in Requests |-> "done"]
    /\ filepath = [r \in Requests |-> <<>>]
    /\ extractor = [r \in Requests |-> "none"]
    /\ file_text = [r \in Requests |-> <<>>]
    /\ category = [r \in Requests |-> NoneCategory]
    /\ uploads = <<>>

\* Lines 98-115: the locals are set, the request is checked, and for an
\* accepted filename the filepath is computed.
Receive(r) ==
    /\ pc[r] = "start"
    /\ LET req == request[r] IN
         IF req.method # "POST"
         THEN /\ pc' = [pc EXCEPT ![r] = "render"]
              /\ UNCHANGED <<category, filepath>>
         ELSE IF ~req.has_file
         THEN /\ category' = [category EXCEPT ![r] = "No file part"]
              /\ pc' = [pc EXCEPT ![r] = "render"]
              /\ UNCHANGED filepath
         ELSE IF req.filename = <<>>
         THEN /\ category' = [category EXCEPT ![r] = "No selected file"]
              /\ pc' = [pc EXCEPT ![r] = "render"]
              /\ UNCHANGED filepath
         ELSE IF allowed_file(req.filename)
         THEN /\ filepath' = [filepath EXCEPT ![r] =
                                path_join(UPLOAD_FOLDER, secure_filename(req.filename))]
              /\ pc' = [pc EXCEPT ![r] = "save"]
              /\ UNCHANGED category
         ELSE /\ pc' = [pc EXCEPT ![r] = "render"]
              /\ UNCHANGED <<category, filepath>>
    /\ UNCHANGED <<request, extractor, file_text, uploads, pureVars>>

\* the path file.save writes to
save_path(r) == filepath[r]

\* Line 116: file.save(filepath) writes the uploaded content to filepath,
\* replacing what is there.
Save(r) ==
    /\ pc[r] = "save"
    /\ uploads' = [p \in DOMAIN uploads \cup {save_path(r)} |->
                     IF p = save_path(r) THEN request[r].content ELSE uploads[p]]
    /\ pc' = [pc EXCEPT ![r] = "extract"]
    /\ UNCHANGED <<request, filepath, extractor, file_text, category, pureVars>>

\* the tests of lines 119 and 121 without the calls of lower()
chosen_extractor_case_sensitive(filename) ==
    IF endswith(filename, DotPdf) THEN "pdf"
    ELSE IF endswith(filename, DotDocx) THEN "docx"
    ELSE "none"

\* Lines 119-123: filename.lower().endswith('.pdf'), then '.docx', else neither
chosen_extractor(filename) ==
    IF endswith(lower(filename), DotPdf) THEN "pdf"
    ELSE IF endswith(lower(filename), DotDocx) THEN "docx"
    ELSE "none"

\* Lines 119-124: the extractor is chosen by the suffix of the sanitized
\* filename and reads the file at filepath; an exception it raises leaves
\* upload_file, which has no handler for it.
Extract(r) ==
    /\ pc[r] = "extract"
    /\ LET which == chosen_extractor(filepath[r])
           content == uploads[filepath[r]]
           got == IF which = "pdf" THEN extract_text_from_pdf(content)
                  ELSE extract_text_from_docx(content)
       IN  IF which # "none"
           THEN /\ extractor' = [extractor EXCEPT ![r] = which]
                /\ IF got.raised
                   THEN /\ pc' = [pc EXCEPT ![r] = "crashed"]
                        /\ UNCHANGED file_text
                   ELSE /\ pc' = [pc EXCEPT ![r] = "categorize"]
                        /\ file_text' = [file_text EXCEPT ![r] = got.text]
                /\ UNCHANGED category
           ELSE /\ category' = [category EXCEPT ![r] = "Unsupported file type"]
                /\ pc' = [pc EXCEPT ![r] = "categorize"]
                /\ UNCHANGED <<extractor, file_text>>
    /\ UNCHANGED <<request, filepath, uploads, pureVars>>

\* Lines 127-128: if file_text: category = categorize_text(file_text)
Classify(r) ==
    /\ pc[r] = "categorize"
    /\ category' = [category EXCEPT ![r] =
                      IF file_text[r] # <<>> THEN categorize_text(file_text[r])
                      ELSE category[r]]
    /\ pc' = [pc EXCEPT ![r] = "render"]
    /\ UNCHANGED <<request, filepath, extractor, file_text, uploads, pureVars>>

\* Lines 133-144: the page is rendered with category and returned.
Render(r) ==
    /\ pc[r] = "render"
    /\ pc' = [pc EXCEPT ![r] = "done"]
    /\ UNCHANGED <<request, filepath, extractor, file_text, category, uploads, pureVars>>

\* no request but r is between its first and its last statement
Alone(r) == \A q \in Requests \ {r} : pc[q] \in {"start", "done", "crashed"}

\* Requests served one after the other.
Next ==
    \E r \in Requests :
        \/ Alone(r) /\ Receive(r)
        \/ Alone(r) /\ Save(r)
        \/ Alone(r) /\ Extract(r)
        \/ Alone(r) /\ Classify(r)
        \/ Alone(r) /\ Render(r)

Spec == Init /\ [][Next]_vars

\* Requests served by concurrent threads: their statements interleave.
NextConcurrent ==
    \E r \in Requests :
        \/ Receive(r)
        \/ Save(r)
        \/ Extract(r)
        \/ Classify(r)
        \/ Render(r)

SpecConcurrent == Init /\ [][NextConcurrent]_vars

----------------------------------------------------------------------------
(* The drivers of allowed_file and of the extractors                        *)

InitValidate ==
    /\ stage = "input"
    /\ fname \in Filenames
    /\ accepted = FALSE
    /\ IdleClassify
    /\ IdleExtract
    /\ IdleHandler

\* One call of allowed_file(fname).
Validate ==
    /\ stage = "input"
    /\ stage' = "done"
    /\ accepted' = allowed_file(fname)
    /\ UNCHANGED <<fname, classifyVars, extractVars, handlerVars>>

NextValidate == Validate

SpecValidate == InitValidate /\ [][NextValidate]_vars

InitExtract ==
    /\ stage = "input"
    /\ document \in Documents
    /\ extracted = Returned(<<>>)
    /\ IdleClassify
    /\ IdleValidate
    /\ IdleHandler

\* One call of extract_text_from_pdf on the document.
ExtractPdf ==
    /\ stage = "input"
    /\ stage' = "done_pdf"
    /\ extracted' = extract_text_from_pdf(document)
    /\ UNCHANGED <<document, classifyVars, validateVars, handlerVars>>

\* One call of extract_text_from_docx on the document.
ExtractDocx ==
    /\ stage = "input"
    /\ stage' = "done_docx"
    /\ extracted' = extract_text_from_docx(document)
    /\ UNCHANGED <<document, classifyVars, validateVars, handlerVars>>

NextExtract == ExtractPdf \/ ExtractDocx

SpecExtract == InitExtract /\ [][NextExtract]_vars

----------------------------------------------------------------------------
(* The driver of the classifier                                             *)

InitClassify ==
    /\ stage = "input"
    /\ text \in Texts
    /\ scores = NoScores
    /\ label = "None"
    /\ IdleValidate
    /\ IdleExtract
    /\ IdleHandler

\* One call of categorize_text(text).
Categorize ==
    /\ stage = "input"
    /\ stage' = "done"
    /\ scores' = scoresOf(text)
    /\ label' = categorize_text(text)
    /\ UNCHANGED <<text, validateVars, extractVars, handlerVars>>

NextClassify == Categorize

SpecClassify == InitClassify /\ [][NextClassify]_vars

----------------------------------------------------------------------------
(* Vocabulary of the properties of the classifier: keyword occurrences,     *)
(* counted without reference to the scan of count                           *)

\* kw occurs in t at position i, letter case ignored
OccursAt(kw, t, i) ==
    /\ i >= 1
    /\ i + Len(kw) - 1 <= Len(t)
    /\ \A j \in 1..Len(kw) : lowerChar[t[i + j - 1]] = kw[j]

OccurrencePositions(kw, t) == {i \in 1..Len(t) : OccursAt(kw, t, i)}

NonOverlapping(P, n) == \A i, j \in P : i < j => j - i >= n

\* the number of non-overlapping occurrences of kw in t: the size of a
\* largest set of occurrences no two of which overlap
OccurrenceCount(kw, t) ==
    LET all == OccurrencePositions(kw, t)
        sizes == {Cardinality(P) : P \in {Q \in SUBSET all : NonOverlapping(Q, Len(kw))}}
    IN  IF all = {} THEN 0
        ELSE CHOOSE n \in sizes : \A m \in sizes : m <= n

RECURSIVE SumSeq(_)
SumSeq(ns) == IF ns = <<>> THEN 0 ELSE Head(ns) + SumSeq(Tail(ns))

\* total keyword count of a category in t
TotalCount(sport, t) ==
    SumSeq([k \in 1..Len(SPORT_CATEGORIES[sport]) |->
               OccurrenceCount(SPORT_CATEGORIES[sport][k], t)])

\* the total keyword counts of all categories in t
Totals(t) == [s \in Sports |-> TotalCount(s, t)]

MaxOf(tot) == CHOOSE m \in {tot[s] : s \in Sports} : \A s \in Sports : tot[s] <= m

StrictlyAhead(A, tot) == \A B \in Sports \ {A} : tot[A] > tot[B]

PositionOf(sport) == CHOOSE i \in 1..Len(SportOrder) : SportOrder[i] = sport

HasUpperCase(t) == \E i \in 1..Len(t) : lowerChar[t[i]] # t[i]

----------------------------------------------------------------------------
(* Properties of categorize_text, checked under SpecClassify                *)

\* C1: a category whose total keyword count is strictly greater than that of
\* every other category is the one returned, and the returned label is the
\* same for the text in upper case, in lower case and with every letter's
\* case swapped.
C1_StrictMaximumWinsInAnyCase ==
    stage = "done" =>
        LET tot == Totals(text)
        IN  /\ \A A \in Sports : StrictlyAhead(A, tot) => label = A
            /\ categorize_text(upper(text)) = label
            /\ categorize_text(lower(text)) = label
            /\ categorize_text(swapcase(text)) = label

\* C1 witness: a text with upper-case letters in which Hockey is strictly
\* ahead has been classified as Hockey.
C1_Witness ==
    /\ stage = "done"
    /\ HasUpperCase(text)
    /\ StrictlyAhead("Hockey", Totals(text))
    /\ label = "Hockey"

\* C2: a text without any keyword occurrence gives "Unknown"; a category is
\* returned only with a total above zero; the result is a category of
\* SPORT_CATEGORIES or "Unknown".
C2_UnknownIffNoKeyword ==
    stage = "done" =>
        LET tot == Totals(text)
        IN  /\ (\A s \in Sports : tot[s] = 0) => label = "Unknown"
            /\ label \in Sports => tot[label] > 0 /\ scores[label] > 0
            /\ label \in Sports \cup {"Unknown"}

\* C2 witness: a non-empty text without keywords has been classified.
C2_Witness ==
    /\ stage = "done"
    /\ text # <<>>
    /\ \A s \in Sports : TotalCount(s, text) = 0
    /\ label = "Unknown"

\* C3: when several categories share the greatest total and it is not zero,
\* the one that comes first in SportOrder is returned.
C3_FirstOfTiedWins ==
    stage = "done" =>
        LET tot == Totals(text)
            top == MaxOf(tot)
        IN  top > 0 =>
              /\ label \in Sports
              /\ tot[label] = top
              /\ \A s \in Sports : tot[s] = top => PositionOf(label) <= PositionOf(s)

\* C3 witness: Basketball and Hockey tie above the other categories, and
\* Basketball is returned.
C3_Witness ==
    /\ stage = "done"
    /\ LET tot == Totals(text)
       IN  /\ tot["Basketball"] = MaxOf(tot)
           /\ tot["Hockey"] = MaxOf(tot)
           /\ tot["Football"] < MaxOf(tot)
           /\ tot["Cricket"] < MaxOf(tot)
           /\ tot["Tennis"] < MaxOf(tot)
    /\ label = "Basketball"

\* C4: the score of every category is the sum over its keywords of the
\* number of non-overlapping substring occurrences in the lower-cased text,
\* whatever characters surround an occurrence.
C4_ScoreIsSubstringCount ==
    stage = "done" => scores = Totals(text)

\* C4 witness: "goal" inside "Goalie" and "ball" inside "basketBALL" have
\* been counted for Football and for Cricket.
C4_Witness ==
    /\ stage = "done"
    /\ text = <<"G","o","a","l","i","e">> \o <<"b","a","s","k","e","t","B","A","L","L">>
    /\ scores["Football"] = 1
    /\ scores["Cricket"] = 1
    /\ scores["Hockey"] = 1
    /\ scores["Basketball"] = 1

----------------------------------------------------------------------------
(* Property of allowed_file, checked under SpecValidate                     *)

\* fn has a '.', and what follows its last '.' is ext in some letter case
HasExtension(fn, ext) ==
    \E k \in 1..Len(fn) :
        /\ fn[k] = "."
        /\ \A j \in (k + 1)..Len(fn) : fn[j] # "."
        /\ Len(fn) - k = Len(ext)
        /\ \A j \in 1..Len(ext) : lowerChar[fn[k + j]] = ext[j]

ReportPDF == <<"r","e","p","o","r","t",".","P","D","F">>

Report == <<"r","e","p","o","r","t">>

ImagePng == <<"i","m","a","g","e",".","p","n","g">>

\* C5: a filename is accepted exactly when it has a '.' and the part after
\* its last '.' is pdf or docx in some letter case; "report.PDF" is
\* accepted, "report" and "image.png" are rejected.
C5_AcceptedIffPdfOrDocxExtension ==
    stage = "done" =>
        /\ accepted <=> \/ HasExtension(fname, <<"p","d","f">>)
                        \/ HasExtension(fname, <<"d","o","c","x">>)
        /\ fname = ReportPDF => accepted
        /\ fname = Report => ~accepted
        /\ fname = ImagePng => ~accepted

\* C5 witness: "report.PDF" has been validated and accepted.
C5_Witness ==
    /\ stage = "done"
    /\ fname = ReportPDF
    /\ accepted

----------------------------------------------------------------------------
(* Property of the extractors, checked under SpecExtract                    *)

\* the text a page contributes: nothing for None
PageText(pv) == IF pv.isNone THEN <<>> ELSE pv.value

\* the summed lengths of the texts before the i-th
Offset(ts, i) == SumSeq([j \in 1..(i - 1) |-> Len(ts[j])])

\* C9: the PDF extractor returns the pages' texts one after the other in
\* page order with nothing between them, a page without text (None or
\* empty) adding nothing and raising nothing; the DOCX extractor returns the
\* paragraphs' texts in order with exactly one newline between neighbours.
C9_ExtractionKeepsOrderAndSeparator ==
    /\ stage = "done_pdf" /\ document.format = "pdf" =>
          LET ts == [i \in 1..Len(document.parts) |-> PageText(document.parts[i])]
              t  == extracted.text
          IN  /\ ~extracted.raised
              /\ Len(t) = Offset(ts, Len(ts) + 1)
              /\ \A i \in 1..Len(ts) :
                    SubSeq(t, Offset(ts, i) + 1, Offset(ts, i + 1)) = ts[i]
    /\ stage = "done_docx" /\ document.format = "docx" =>
          LET ts == document.parts
              n  == Len(ts)
              t  == extracted.text
          IN  /\ ~extracted.raised
              /\ Len(t) = Offset(ts, n + 1) + (IF n = 0 THEN 0 ELSE n - 1)
              /\ \A i \in 1..n :
                    SubSeq(t, Offset(ts, i) + i, Offset(ts, i + 1) + i - 1) = ts[i]
              /\ \A i \in 1..(n - 1) : t[Offset(ts, i + 1) + i] = "\n"

\* C9 witness: a PDF whose second page has no text has been extracted, and
\* the texts of its first and third page are adjacent in the result.
C9_Witness ==
    /\ stage = "done_pdf"
    /\ document = [format |-> "pdf",
                   parts |-> <<Str(<<"g","o">>), None, Str(<<"a","l","\n">>)>>]
    /\ extracted = Returned(<<"g","o","a","l","\n">>)

----------------------------------------------------------------------------
(* Properties of upload_file                                                *)

Labels == Sports \cup {"Unknown"}

Finished(r) == pc[r] \in {"done", "crashed"}

AcceptedName(fn) ==
    HasExtension(fn, <<"p","d","f">>) \/ HasExtension(fn, <<"d","o","c","x">>)

\* the format the final extension of an accepted filename names
DeclaredFormat(fn) == IF HasExtension(fn, <<"p","d","f">>) THEN "pdf" ELSE "docx"

\* a POST with a file part whose filename validation accepts
AcceptedUpload(r) ==
    /\ request[r].method = "POST"
    /\ request[r].has_file
    /\ AcceptedName(request[r].filename)

\* the content is a document of the format the filename declares
WellFormed(r) == request[r].content.format = DeclaredFormat(request[r].filename)

\* what the extractor of the declared format gives on the request's own content
OwnExtraction(r) ==
    IF DeclaredFormat(request[r].filename) = "pdf"
    THEN extract_text_from_pdf(request[r].content)
    ELSE extract_text_from_docx(request[r].content)

\* C6 (as claimed): a POST whose upload validation rejects ends with the
\* label of the reason: "No file part", "No selected file" or, for a
\* filename without an allowed extension, "Unsupported file type".
C6_RejectedUploadIsLabelled ==
    \A r \in Requests :
        pc[r] = "done" /\ request[r].method = "POST" =>
            /\ ~request[r].has_file => category[r] = "No file part"
            /\ request[r].has_file /\ request[r].filename = <<>> =>
                  category[r] = "No selected file"
            /\ request[r].has_file /\ request[r].filename # <<>>
                  /\ ~AcceptedName(request[r].filename) =>
                  category[r] = "Unsupported file type"

\* C7 (as claimed): an accepted upload whose content is no document of its
\* format still ends with the page rendered, not with an exception that
\* leaves upload_file.
C7_ExtractionFailureIsRendered ==
    \A r \in Requests :
        Finished(r) /\ AcceptedUpload(r) /\ ~WellFormed(r) => pc[r] = "done"

\* C8 (as claimed): under any interleaving, a label returned for a request
\* is the classification of the text of that request's own content.
C8_LabelIsOfOwnBytes ==
    \A r \in Requests :
        pc[r] = "done" /\ category[r] \in Labels =>
            /\ ~OwnExtraction(r).raised
            /\ category[r] = categorize_text(OwnExtraction(r).text)

KeepsExtension(fn) ==
    \/ endswith(lower(secure_filename(fn)), DotPdf)
    \/ endswith(lower(secure_filename(fn)), DotDocx)

C10_SerialOwnText ==
    \A r \in Requests :
        Finished(r) /\ AcceptedUpload(r) /\ WellFormed(r) =>
            /\ pc[r] = "done"
            /\ extractor[r] # "none" => file_text[r] = OwnExtraction(r).text

====
